---------------------------- MODULE Spec2Model ----------------------------
(***************************************************************************)
(* A model of openbr/plugins/gui.cpp: the main-thread object factory       *)
(* (MainThreadCreator), the display windows and their blocking waits, the  *)
(* interactive transforms that drive them, and the frame-rate transforms.  *)
(*                                                                         *)
(* Threads.  Thread 0 is the Qt main ("owner") thread, which runs the      *)
(* event loop; threads 1..NumWorkers are pipeline worker threads.          *)
(***************************************************************************)
EXTENDS Integers, Sequences, FiniteSets, TLC

\* ------------------------------------------------------------------ bounds
NumWorkers == 2      \* worker threads beside the owner thread
MaxCalls == 3        \* getItem calls each thread makes
NumDrivers == 2      \* transforms (each with its own window) in the pipeline
MaxImages == 2       \* images in a batch (over all its templates)
MaxImagesSerial == 1 \* the same, for the batches given to Manual and Survey alone
MaxKeys == 2         \* configured keys
MaxClicks == 1       \* points a PointMarkingWindow holds at a time
MaxInvocations == 5  \* projectUpdate calls made on FPSLimit or FPSCalc
MaxTicks == 3        \* times the clock advances between those calls

Owner == 0
Workers == 1..NumWorkers
Threads == {Owner} \cup Workers

VARIABLES
  proc,      \* "running" | "fatal" (qFatal) | "crashed" (invalid memory access)
  \* ---- MainThreadCreator (one factory object)
  callers,   \* configuration: the threads that call getItem on this factory
  worker,    \* MainThreadCreator::worker, the shared NominalCreation pointer
  reqState,  \* heap state of each ActualCreation: "free" | "live" | "deleted"
  basis,     \* ActualCreation::basis of each request
  callq,     \* pending needCreation() deliveries in the owner's event queue
  gpc,       \* where each thread is in getItem
  calls,     \* number of getItem calls each thread has started
  ret,       \* history: the values each thread's getItem calls returned
  writes,    \* history: number of times creation() assigned each basis
  \* ---- configuration (fixed during a run)
  useGui,        \* Globals->useGui
  parallelism,   \* Globals->parallelism
  kind,          \* per transform: "Show" | "Manual" | "Elicit" | "Survey" | "None"
  waitInput,     \* per transform: the waitInput property
  keys,          \* per transform: the keys property
  src,           \* per transform: the batch its threads are given (images per template)
  drv,           \* per worker thread: the transform it runs
  \* ---- transform objects
  inited,        \* init() has run
  displayBuffer, \* QPixmap * displayBuffer: NullPtr, or the image it holds
  window,        \* window / gui / p_window: "null" | "uninit" | "win"
  \* ---- window objects (window d belongs to transform d), owner thread's
  filters,       \* event filters installed on the application, in install order
  evq,           \* the owner thread's queue of posted slot calls
  pixmap,        \* the image the window holds
  visible,       \* show() has been called
  title,         \* window title
  points,        \* PointMarkingWindow::points
  gotString,     \* PromptWindow::gotString
  guiKeys,       \* DisplayGUI::keys
  fields,        \* DisplayGUI::fields, the text of each QLineEdit
  waiting,       \* threads blocked in wait.wait(&lock)
  woken,         \* threads a wakeAll has released and that have not returned yet
  \* ---- worker threads in projectUpdate
  pc, fi, mi,    \* position: program counter, template index, image index
  dst,           \* the output batch
  \* ---- history
  wokeShown,     \* the wake that released the thread came after its image was shown
  completed,     \* a completing event was handled after the thread's image was shown
  net,           \* per window: points added less points removed since showImage
  cycOpen,       \* per window: showImage processed, completing key not yet handled
  touchedNull,   \* a null or uninitialised pointer was dereferenced
  rejected,      \* the latest key press PromptWindow handled was turned down
  \* ---- FPSLimit and FPSCalc (one of them is transform 1 when its kind says so)
  targetFPS,     \* the targetFPS property
  now,           \* the wall clock, in ms
  timerStart,    \* the clock when timer.start() ran; NotStarted before
  target_wait,   \* FPSLimit::target_wait
  last_time,     \* FPSLimit::last_time
  wakeAt,        \* the clock value a sleeping thread's msleep runs to
  initialized,   \* FPSCalc::initialized
  framesSeen,    \* FPSCalc::framesSeen
  \* ---- history of FPSLimit and FPSCalc
  ticks,         \* number of times the clock advanced between invocations
  invs,          \* number of projectUpdate calls started
  given,         \* number of templates in the batch of the latest call
  items,         \* number of templates in all the batches given to FPSCalc
  elapsed,       \* timer.elapsed() as the latest FPSCalc call read it
  prevRet,       \* the clock when the latest call returned
  spacing,       \* the time between the returns of the latest two calls
  sleeps,        \* the sleep of each call, while the calls are back to back
  gap            \* the clock advanced between init() and a call, or between calls

facVars == <<callers, worker, reqState, basis, callq, gpc, calls, ret, writes>>
cfgVars == <<useGui, parallelism, kind, waitInput, keys, src, drv>>
drvVars == <<inited, displayBuffer, window>>
winVars == <<filters, evq, pixmap, visible, title, points, gotString, guiKeys,
             fields, waiting, woken>>
thrVars == <<pc, fi, mi, dst>>
histVars == <<wokeShown, completed, net, cycOpen, touchedNull>>
paceVars == <<targetFPS, now, timerStart, target_wait, last_time, wakeAt,
              initialized, framesSeen, ticks, invs, given, items, elapsed,
              prevRet, spacing, sleeps, gap>>
guiVars == <<cfgVars, drvVars, winVars, thrVars, histVars, paceVars, rejected>>
vars == <<proc, facVars, guiVars>>

\* ------------------------------------------------------- MainThreadCreator
Reqs == Workers \X (1..MaxCalls)
NoReq == <<0, 0>>                 \* an ActualCreation pointer that was never set
Null == [kind |-> "null"]
Obj(r, th, k) == [kind |-> "obj", thunk |-> r, by |-> th, n |-> k]

\* the ActualCreation of thread t's current call
MyReq(t) == <<t, calls[t]>>

InitFactory ==
  /\ callers \in (SUBSET Threads) \ {{}}
  /\ worker = NoReq
  /\ reqState = [r \in Reqs |-> "free"]
  /\ basis = [r \in Reqs |-> Null]
  /\ callq = <<>>
  /\ gpc = [t \in Threads |-> "idle"]
  /\ calls = [t \in Threads |-> 0]
  /\ ret = [t \in Threads |-> <<>>]
  /\ writes = [r \in Reqs |-> 0]

\* the owner thread's call as it would be were it to leave its object's
\* request in the shared pointer
GetItemDirectHides ==
  /\ proc = "running"
  /\ Owner \in callers
  /\ calls[Owner] < MaxCalls
  /\ calls' = [calls EXCEPT ![Owner] = @ + 1]
  /\ worker' = <<1, calls[Owner] + 1>>
  /\ ret' = [ret EXCEPT ![Owner] = Append(@, Obj(NoReq, Owner, calls[Owner] + 1))]
  /\ UNCHANGED <<proc, callers, reqState, basis, callq, gpc, writes>>
  /\ UNCHANGED guiVars

\* getItem called by the owner thread: return new T()
GetItemDirect ==
  /\ proc = "running"
  /\ Owner \in callers
  /\ calls[Owner] < MaxCalls
  /\ calls' = [calls EXCEPT ![Owner] = @ + 1]
  /\ ret' = [ret EXCEPT ![Owner] = Append(@, Obj(NoReq, Owner, calls[Owner] + 1))]
  /\ UNCHANGED <<proc, callers, worker, reqState, basis, callq, gpc, writes>>
  /\ UNCHANGED guiVars

\* getItem called by a worker: actualWorker = new ActualCreation<T>() (the
\* parentheses value-initialise it, so basis starts null); worker = actualWorker
GetItemHide(t) ==
  /\ proc = "running"
  /\ t \in callers /\ t # Owner
  /\ gpc[t] = "idle"
  /\ calls[t] < MaxCalls
  /\ calls' = [calls EXCEPT ![t] = @ + 1]
  /\ LET r == <<t, calls[t] + 1>> IN
       /\ reqState' = [reqState EXCEPT ![r] = "live"]
       /\ basis' = [basis EXCEPT ![r] = Null]
       /\ worker' = r
  /\ gpc' = [gpc EXCEPT ![t] = "hidden"]
  /\ UNCHANGED <<proc, callers, callq, ret, writes>>
  /\ UNCHANGED guiVars

\* the emission as a plain Qt::QueuedConnection would make it: posted, and the
\* emitting thread goes on without waiting for the slot
GetItemEmitQueued(t) ==
  /\ proc = "running"
  /\ gpc[t] = "hidden"
  /\ callq' = Append(callq, t)
  /\ gpc' = [gpc EXCEPT ![t] = "resumed"]
  /\ UNCHANGED <<proc, callers, worker, reqState, basis, calls, ret, writes>>
  /\ UNCHANGED guiVars

\* emit needCreation() over the Qt::BlockingQueuedConnection: the call is
\* posted to the owner's event queue and the emitting thread blocks
GetItemEmit(t) ==
  /\ proc = "running"
  /\ gpc[t] = "hidden"
  /\ callq' = Append(callq, t)
  /\ gpc' = [gpc EXCEPT ![t] = "blocked"]
  /\ UNCHANGED <<proc, callers, worker, reqState, basis, calls, ret, writes>>
  /\ UNCHANGED guiVars

\* worker->creation() on request r: basis = new T()
Creation(r) ==
  /\ basis' = [basis EXCEPT ![r] = Obj(r, Owner, writes[r] + 1)]
  /\ writes' = [writes EXCEPT ![r] = @ + 1]
  /\ UNCHANGED proc

\* the slot, run by the owner thread for the oldest pending emission; when it
\* returns the emitting thread is released.  A worker pointer to a deleted
\* ActualCreation is a use after free: the call crashes, or writes into freed
\* memory nobody reads, or into a live ActualCreation that reuses the memory.
CreateThing ==
  /\ proc = "running"
  /\ callq # <<>>
  /\ callq' = Tail(callq)
  /\ gpc' = [gpc EXCEPT ![Head(callq)] = "resumed"]
  /\ IF reqState[worker] = "live"
       THEN Creation(worker)
       ELSE \/ proc' = "crashed" /\ UNCHANGED <<basis, writes>>
            \/ UNCHANGED <<proc, basis, writes>>
            \/ \E r \in Reqs : reqState[r] = "live" /\ Creation(r)
  /\ UNCHANGED <<callers, worker, reqState, calls, ret>>
  /\ UNCHANGED guiVars

\* output = actualWorker->basis; delete actualWorker; return output
GetItemCollect(t) ==
  /\ proc = "running"
  /\ gpc[t] = "resumed"
  /\ ret' = [ret EXCEPT ![t] = Append(@, basis[MyReq(t)])]
  /\ reqState' = [reqState EXCEPT ![MyReq(t)] = "deleted"]
  /\ gpc' = [gpc EXCEPT ![t] = "idle"]
  /\ UNCHANGED <<proc, callers, worker, basis, callq, calls, writes>>
  /\ UNCHANGED guiVars

\* no getItem call is made: the state of the factory while the transforms run
FactoryIdle ==
  /\ callers = {}
  /\ worker = NoReq
  /\ reqState = [r \in Reqs |-> "free"]
  /\ basis = [r \in Reqs |-> Null]
  /\ callq = <<>>
  /\ gpc = [t \in Threads |-> "idle"]
  /\ calls = [t \in Threads |-> 0]
  /\ ret = [t \in Threads |-> <<>>]
  /\ writes = [r \in Reqs |-> 0]

\* ------------------------------------------------------- transforms: data
Drivers == 1..NumDrivers
Kinds == {"Show", "Manual", "Elicit", "Survey"}
PaceKinds == {"FPSLimit", "FPSCalc"}
NullPtr == <<-1, -1, -1>>          \* displayBuffer == NULL
NoImg == <<0, 0, 0>>               \* an empty QPixmap; also the empty title
QuestionTitle == <<0, 0, 1>>       \* the question property, as a window title
Texts == {"y", "Y", "n", "N", "x"} \* QKeyEvent::text() of the keys pressed
Positions == {"p1", "p2"}          \* QMouseEvent::pos() of the presses
Buttons == {"Left", "Right", "Middle"}
PropertyKey == 0                   \* the propertyName key of a file; keys are 1..

\* QString::toLower
ToLower(s) == CASE s = "Y" -> "y" [] s = "N" -> "n" [] OTHER -> s

\* a template's file: its name, its unlabeled point list, its key/value
\* metadata (<<>>: the key is absent, <<v>>: the key holds v) and its "AvgFPS"
\* value
EmptyFile == [name |-> 0, pts |-> <<>>, kv |-> [k \in 0..MaxKeys |-> <<>>],
              fps |-> <<>>]

\* the copy as it would be were it to lose the last template
PassThroughDropsLast(n) == [i \in 1..(n - 1) |-> [EmptyFile EXCEPT !.name = i]]

\* a batch of n templates named 1..n in this order, copied by dst = src
PassThrough(n) == [i \in 1..n |-> [EmptyFile EXCEPT !.name = i]]
SrcFiles(d) == PassThrough(Len(src[d]))
Unassigned == [assigned |-> FALSE, files |-> <<>>]

\* the batches a transform is given: up to n templates holding up to n images
\* between them (a template may hold none)
RECURSIVE Sum(_)
Sum(q) == IF q = <<>> THEN 0 ELSE Head(q) + Sum(Tail(q))
Batches(n) == {b \in UNION {[1..m -> 0..n] : m \in 0..n} : Sum(b) <= n}
KeyLists == {[j \in 1..n |-> j] : n \in 0..MaxKeys}

\* the window class each transform's init() instantiates
WindowType(k) ==
  CASE k = "Show" -> "DisplayWindow"
    [] k = "Manual" -> "PointMarkingWindow"
    [] k = "Survey" -> "PromptWindow"
    [] k = "Elicit" -> "DisplayGUI"
    [] OTHER -> "none"

\* whether the transform blocks for input after each image
Waits(d) == kind[d] = "Elicit" \/ waitInput[d]

\* the image thread t is at
CurImg(t) == <<t, fi[t], mi[t]>>

\* a slot call posted to the owner thread by a queued connection
Call(slot, d, arg, t) == [slot |-> slot, w |-> d, arg |-> arg, by |-> t]

\* the signals of transform d are connected to its window's slots
Connected(d) == window[d] = "win"

\* history: the showImage call of thread t's current image has been processed
Shown(t) ==
  /\ pc[t] \in {"wait", "blocked"}
  /\ ~ \E i \in 1..Len(evq) : evq[i].slot = "showImage" /\ evq[i].by = t

\* --------------------------------------------- FPSLimit and FPSCalc: data
TargetRates == {30, 100}           \* values of the targetFPS property
DefaultFPS == 30                   \* BR_PROPERTY(int, targetFPS, 30)
\* ms the clock advances by between calls: less and more than the interval
\* of FPSLimit, less and no less than the second FPSCalc waits for
Delays(k) == IF k = "FPSLimit" THEN {1, 40} ELSE {1, 1000}
Oversleep == {0, 1}                \* ms QThread::msleep runs past the time asked
NotStarted == -1                   \* a QElapsedTimer start() has not run on
NoSleep == -1                      \* a call that returned without msleep
Awake == -1                        \* no msleep is in progress

\* FPSLimit and FPSCalc before init(): FPSCalc's constructor clears
\* initialized; init() gives the other members their first values
InitPace ==
  /\ targetFPS \in (IF kind[1] \in PaceKinds THEN TargetRates ELSE {DefaultFPS})
  /\ now = 0
  /\ timerStart = NotStarted
  /\ target_wait = 0
  /\ last_time = 0
  /\ wakeAt = Awake
  /\ initialized = FALSE
  /\ framesSeen = 0
  /\ ticks = 0
  /\ invs = 0
  /\ given = 0
  /\ items = 0
  /\ elapsed = NotStarted
  /\ prevRet = NotStarted
  /\ spacing = NotStarted
  /\ sleeps = <<>>
  /\ gap = FALSE

\* the transforms and windows before init(): the constructors' state.
\* Survey's p_window has no initialiser.
InitObjects ==
  /\ inited = [d \in Drivers |-> FALSE]
  /\ displayBuffer = [d \in Drivers |-> NullPtr]
  /\ window = [d \in Drivers |-> IF kind[d] = "Survey" THEN "uninit" ELSE "null"]
  /\ filters = <<>>
  /\ evq = <<>>
  /\ pixmap = [d \in Drivers |-> NoImg]
  /\ visible = [d \in Drivers |-> FALSE]
  /\ title = [d \in Drivers |-> NoImg]
  /\ points = [d \in Drivers |-> <<>>]
  /\ gotString = [d \in Drivers |-> ""]
  /\ guiKeys = [d \in Drivers |-> <<>>]
  /\ fields = [d \in Drivers |-> <<>>]
  /\ waiting = [d \in Drivers |-> {}]
  /\ woken = [d \in Drivers |-> {}]
  /\ pc = [t \in Workers |-> "idle"]
  /\ fi = [t \in Workers |-> 0]
  /\ mi = [t \in Workers |-> 0]
  /\ dst = [t \in Workers |-> Unassigned]
  /\ wokeShown = [t \in Workers |-> FALSE]
  /\ completed = [t \in Workers |-> FALSE]
  /\ net = [d \in Drivers |-> 0]
  /\ cycOpen = [d \in Drivers |-> FALSE]
  /\ touchedNull = FALSE
  /\ rejected = FALSE

\* the properties a transform of kind k can be given.  Elicit has no waitInput
\* property and Survey's projectUpdate reads no keys; Show reads its keys only
\* to build the window title, which the model keeps as the template it was
\* built for.
WaitInputs(k) == IF k \in {"Elicit"} \cup PaceKinds THEN {TRUE} ELSE BOOLEAN
KeyChoices(k) == IF k \in {"Show", "Survey"} \cup PaceKinds THEN {<<>>} ELSE KeyLists

\* one transform (transform 1) of a kind in `kinds`, given batches of up to n
\* images and run by every worker thread the host allows; the other
\* transforms are absent
InitOneDriver(kinds, n) ==
  /\ useGui \in BOOLEAN
  /\ parallelism \in 1..NumWorkers
  /\ \E k \in kinds : \E w \in WaitInputs(k) : \E ks \in KeyChoices(k) :
     \E b \in (IF k \in PaceKinds THEN {<<>>} ELSE Batches(n)) :
       /\ kind = [d \in Drivers |-> IF d = 1 THEN k ELSE "None"]
       /\ waitInput = [d \in Drivers |-> IF d = 1 THEN w ELSE TRUE]
       /\ keys = [d \in Drivers |-> IF d = 1 THEN ks ELSE <<>>]
       /\ src = [d \in Drivers |-> IF d = 1 THEN b ELSE <<>>]
  /\ drv = [t \in Workers |-> 1]
  /\ InitObjects
  /\ InitPace

\* ---------------------------------------------------- transforms: init()
\* init() / initActual<WindowType>(), run by a worker thread: the window is
\* made on the owner thread by creator.getItem (the DisplayWindow constructor
\* installs the window as an event filter of the application) and the
\* transform's signals are connected to its slots.
DriverInit(d) ==
  /\ proc = "running"
  /\ kind[d] \in Kinds
  /\ ~inited[d]
  /\ inited' = [inited EXCEPT ![d] = TRUE]
  /\ IF ~useGui
       THEN UNCHANGED <<displayBuffer, window, filters, guiKeys, evq>>
       ELSE /\ displayBuffer' = [displayBuffer EXCEPT ![d] = NoImg]
            /\ window' = [window EXCEPT ![d] = "win"]
            /\ filters' = IF WindowType(kind[d]) = "DisplayGUI"
                            THEN filters ELSE Append(filters, d)
            /\ guiKeys' = IF kind[d] = "Elicit"
                            THEN [guiKeys EXCEPT ![d] = keys[d]] ELSE guiKeys
            /\ evq' = IF kind[d] = "Survey"
                        THEN Append(evq, Call("setWindowTitle", d, QuestionTitle, Owner))
                        ELSE evq
  /\ UNCHANGED <<proc, facVars, cfgVars, paceVars, rejected, thrVars, histVars>>
  /\ UNCHANGED <<pixmap, visible, title, points, gotString, fields, waiting, woken>>

\* --------------------------------------------- transforms: projectUpdate
\* the host runs projectUpdate of one transform on at most `parallelism`
\* threads at a time
HostRuns(t) == t <= parallelism

\* the guard as it would be were it left out of Survey's projectUpdate
ParallelGuardManualOnly(d) == kind[d] = "Manual" /\ parallelism > 1

\* the guard at the top of Manual's and Survey's projectUpdate
ParallelGuard(d) == kind[d] \in {"Manual", "Survey"} /\ parallelism > 1

\* entry of projectUpdate: the parallelism guard (qFatal), dst = src, and the
\* return on an empty batch
ProjectUpdate(t) ==
  LET d == drv[t] IN
  /\ proc = "running"
  /\ kind[d] \in Kinds
  /\ pc[t] = "idle"
  /\ inited[d]
  /\ HostRuns(t)
  /\ IF ParallelGuard(d)
       THEN /\ proc' = "fatal"
            /\ pc' = [pc EXCEPT ![t] = "fatal"]
            /\ UNCHANGED <<dst, fi>>
       ELSE /\ dst' = [dst EXCEPT ![t] = [assigned |-> TRUE, files |-> SrcFiles(d)]]
            /\ pc' = [pc EXCEPT ![t] = IF src[d] = <<>> THEN "done" ELSE "frame"]
            /\ fi' = [fi EXCEPT ![t] = 1]
            /\ UNCHANGED proc
  /\ UNCHANGED <<facVars, cfgVars, paceVars, rejected, drvVars, winVars, histVars, mi>>

\* top of the loop over templates; Show emits changeTitle for each template
NextTemplate(t) ==
  LET d == drv[t] IN
  /\ proc = "running"
  /\ pc[t] = "frame"
  /\ IF fi[t] > Len(src[d])
       THEN /\ pc' = [pc EXCEPT ![t] = "done"]
            /\ UNCHANGED <<mi, evq>>
       ELSE /\ pc' = [pc EXCEPT ![t] = "mat"]
            /\ mi' = [mi EXCEPT ![t] = 1]
            /\ evq' = IF kind[d] = "Show" /\ Connected(d)
                        THEN Append(evq, Call("setWindowTitle", d, <<t, fi[t], 0>>, t))
                        ELSE evq
  /\ UNCHANGED <<proc, facVars, cfgVars, paceVars, rejected, drvVars, histVars, fi, dst>>
  /\ UNCHANGED <<filters, pixmap, visible, title, points, gotString, guiKeys,
                 fields, waiting, woken>>

\* top of the loop over a template's images: qImageBuffer = toQImage(m);
\* displayBuffer->convertFromImage(qImageBuffer).  With displayBuffer null the
\* call is an invalid access: the process crashes or happens to go on.
ConvertImage(t) ==
  LET d == drv[t] IN
  /\ proc = "running"
  /\ pc[t] = "mat"
  /\ IF mi[t] > src[d][fi[t]]
       THEN /\ fi' = [fi EXCEPT ![t] = @ + 1]
            /\ pc' = [pc EXCEPT ![t] = "frame"]
            /\ UNCHANGED <<proc, displayBuffer, touchedNull>>
       ELSE IF displayBuffer[d] = NullPtr
         THEN /\ touchedNull' = TRUE
              /\ \/ proc' = "crashed" /\ UNCHANGED pc
                 \/ UNCHANGED proc /\ pc' = [pc EXCEPT ![t] = "emit"]
              /\ UNCHANGED <<fi, displayBuffer>>
         ELSE /\ displayBuffer' = [displayBuffer EXCEPT ![d] = CurImg(t)]
              /\ pc' = [pc EXCEPT ![t] = "emit"]
              /\ UNCHANGED <<proc, fi, touchedNull>>
  /\ UNCHANGED <<facVars, cfgVars, paceVars, rejected, winVars, inited, window, mi, dst>>
  /\ UNCHANGED <<wokeShown, completed, net, cycOpen>>

\* emit updateImage(displayBuffer->copy(displayBuffer->rect())): a showImage
\* call is posted to the owner thread and the transform goes on at once
EmitUpdateImage(t) ==
  LET d == drv[t] IN
  /\ proc = "running"
  /\ pc[t] = "emit"
  /\ evq' = IF Connected(d)
              THEN Append(evq, Call("showImage", d, displayBuffer[d], t))
              ELSE evq
  /\ IF Waits(d)
       THEN /\ pc' = [pc EXCEPT ![t] = "wait"]
            /\ UNCHANGED mi
       ELSE /\ pc' = [pc EXCEPT ![t] = "mat"]
            /\ mi' = [mi EXCEPT ![t] = @ + 1]
  /\ UNCHANGED <<proc, facVars, cfgVars, paceVars, rejected, drvVars, histVars, fi, dst>>
  /\ UNCHANGED <<filters, pixmap, visible, title, points, gotString, guiKeys,
                 fields, waiting, woken>>

\* entry of waitForKey / waitForKeyPress / waitForButtonPress, on the calling
\* thread: PointMarkingWindow clears its points, then the thread takes the
\* window's mutex and wait.wait(&lock) releases it and blocks, so the mutex is
\* free again when the step ends.  A null or uninitialised window pointer
\* (init() did nothing) makes the call an invalid access.
WaitEnter(t) ==
  LET d == drv[t] IN
  /\ proc = "running"
  /\ pc[t] = "wait"
  /\ IF window[d] # "win"
       THEN /\ proc' = "crashed"
            /\ touchedNull' = TRUE
            /\ UNCHANGED <<pc, points, waiting>>
       ELSE /\ points' = IF WindowType(kind[d]) = "PointMarkingWindow"
                           THEN [points EXCEPT ![d] = <<>>] ELSE points
            /\ waiting' = [waiting EXCEPT ![d] = @ \cup {t}]
            /\ pc' = [pc EXCEPT ![t] = "blocked"]
            /\ UNCHANGED <<proc, touchedNull>>
  /\ UNCHANGED <<facVars, cfgVars, paceVars, rejected, drvVars, fi, mi, dst>>
  /\ UNCHANGED <<filters, evq, pixmap, visible, title, gotString, guiKeys,
                 fields, woken>>
  /\ UNCHANGED <<wokeShown, completed, net, cycOpen>>

\* the value the wait returns once the thread has been released
Result(d) ==
  CASE WindowType(kind[d]) = "DisplayWindow" -> <<>>
    [] WindowType(kind[d]) = "PointMarkingWindow" -> points[d]
    [] WindowType(kind[d]) = "PromptWindow" -> <<gotString[d]>>
    [] OTHER -> fields[d]

\* the merge as it would be were Manual to set the keys without comparing the
\* two counts
MergeNoCountCheck(d, file, r) ==
  CASE kind[d] = "Manual" ->
         IF keys[d] = <<>>
           THEN [file EXCEPT !.pts = @ \o r]
           ELSE [file EXCEPT !.kv = [k \in 0..MaxKeys |->
                   IF k \in 1..Len(keys[d]) /\ k <= Len(r) THEN <<r[k]>> ELSE @[k]]]
    [] kind[d] = "Survey" -> [file EXCEPT !.kv[PropertyKey] = r]
    [] OTHER -> file

\* what projectUpdate does to the template's file with the value r
Merge(d, file, r) ==
  CASE kind[d] = "Manual" ->
         IF keys[d] = <<>>
           THEN [file EXCEPT !.pts = @ \o r]
           ELSE IF Len(keys[d]) = Len(r)
             THEN [file EXCEPT !.kv = [k \in 0..MaxKeys |->
                     IF k \in 1..Len(keys[d]) THEN <<r[k]>> ELSE @[k]]]
             ELSE file
    [] kind[d] = "Survey" -> [file EXCEPT !.kv[PropertyKey] = r]
    [] kind[d] = "Elicit" ->
         [file EXCEPT !.kv = [k \in 0..MaxKeys |->
            IF k \in 1..Len(keys[d])
              THEN (IF k <= Len(r) THEN <<r[k]>> ELSE <<"garbage">>)
              ELSE @[k]]]
    [] OTHER -> file

\* return from the wait and the rest of the loop body: the released thread
\* takes the mutex again, reads the window's result, leaves the mutex, and
\* projectUpdate stores the result in dst[i].file.  Elicit indexes the
\* returned list by its own keys: past the end of the list that is an invalid
\* access, which crashes or reads garbage.
WaitReturn(t) ==
  LET d == drv[t]
      r == Result(d)
      short == kind[d] = "Elicit" /\ Len(r) < Len(keys[d])
  IN
  /\ proc = "running"
  /\ pc[t] = "blocked"
  /\ t \in woken[d]
  /\ woken' = [woken EXCEPT ![d] = @ \ {t}]
  /\ completed' = [completed EXCEPT ![t] = FALSE]
  /\ wokeShown' = [wokeShown EXCEPT ![t] = FALSE]
  /\ touchedNull' = (touchedNull \/ short)
  /\ \/ /\ short
        /\ proc' = "crashed"
        /\ UNCHANGED <<pc, mi, dst>>
     \/ /\ dst' = [dst EXCEPT ![t].files[fi[t]] = Merge(d, @, r)]
        /\ pc' = [pc EXCEPT ![t] = "mat"]
        /\ mi' = [mi EXCEPT ![t] = @ + 1]
        /\ UNCHANGED proc
  /\ UNCHANGED <<facVars, cfgVars, paceVars, rejected, drvVars, fi>>
  /\ UNCHANGED <<filters, evq, pixmap, visible, title, points, gotString,
                 guiKeys, fields, waiting>>
  /\ UNCHANGED <<net, cycOpen>>

\* ------------------------------------------------- owner thread: windows
\* the slot as it would be were the form to make no field for its keys
ShowImageMakesNoFields(d, input) ==
  /\ pixmap' = [pixmap EXCEPT ![d] = input]
  /\ visible' = [visible EXCEPT ![d] = TRUE]
  /\ net' = [net EXCEPT ![d] = 0]
  /\ cycOpen' = [cycOpen EXCEPT ![d] = TRUE]
  /\ UNCHANGED <<title, fields>>

\* DisplayWindow::showImage and DisplayGUI::showImage
ShowImage(d, input) ==
  /\ pixmap' = [pixmap EXCEPT ![d] = input]
  /\ visible' = [visible EXCEPT ![d] = TRUE]
  /\ fields' = IF WindowType(kind[d]) = "DisplayGUI"
                 THEN [fields EXCEPT ![d] = @ \o [j \in 1..Len(guiKeys[d]) |-> ""]]
                 ELSE fields
  /\ net' = [net EXCEPT ![d] = 0]
  /\ cycOpen' = [cycOpen EXCEPT ![d] = TRUE]
  /\ UNCHANGED title

\* QWidget::setWindowTitle
SetWindowTitle(d, input) ==
  /\ title' = [title EXCEPT ![d] = input]
  /\ UNCHANGED <<pixmap, visible, fields, net, cycOpen>>

\* the owner thread's event loop delivers the oldest posted slot call
Deliver ==
  /\ proc = "running"
  /\ evq # <<>>
  /\ evq' = Tail(evq)
  /\ IF Head(evq).slot = "showImage"
       THEN ShowImage(Head(evq).w, Head(evq).arg)
       ELSE SetWindowTitle(Head(evq).w, Head(evq).arg)
  /\ UNCHANGED <<proc, facVars, cfgVars, paceVars, rejected, drvVars, thrVars>>
  /\ UNCHANGED <<filters, points, gotString, guiKeys, waiting, woken>>
  /\ UNCHANGED <<wokeShown, completed, touchedNull>>

\* QWaitCondition::wakeAll on window d's condition: the threads waiting at
\* this moment are released; with none waiting nothing is remembered
WakeAll(d) ==
  /\ woken' = [woken EXCEPT ![d] = @ \cup waiting[d]]
  /\ waiting' = [waiting EXCEPT ![d] = {}]
  /\ wokeShown' = [t \in Workers |->
                     IF t \in waiting[d] THEN Shown(t) ELSE wokeShown[t]]
  /\ completed' = [t \in Workers |->
                     completed[t] \/ (drv[t] = d /\ Shown(t))]
  /\ cycOpen' = [cycOpen EXCEPT ![d] = FALSE]

\* the application's event filters see every event, the last installed first,
\* until one returns true: the filter that handles a key press
KeyFilter == filters[Len(filters)]

\* the key presses that differ for the filter that handles them: only
\* PromptWindow reads the text of the key
KeyTexts ==
  IF filters # <<>> /\ WindowType(kind[KeyFilter]) = "PromptWindow"
    THEN Texts ELSE {"x"}

\* the key press as it would be handled were PromptWindow to take any key for
\* an answer
KeyPressAnyKey(text) ==
  /\ proc = "running"
  /\ \E d \in Drivers : visible[d]
  /\ filters # <<>>
  /\ WakeAll(KeyFilter)
  /\ IF WindowType(kind[KeyFilter]) = "PromptWindow"
       THEN /\ gotString' = [gotString EXCEPT ![KeyFilter] = text]
            /\ rejected' = (ToLower(text) \notin {"y", "n"})
       ELSE UNCHANGED <<gotString, rejected>>
  /\ UNCHANGED <<proc, facVars, cfgVars, paceVars, drvVars, thrVars>>
  /\ UNCHANGED <<filters, evq, pixmap, visible, title, points, guiKeys, fields>>
  /\ UNCHANGED <<net, touchedNull>>

\* a key press reaches the application while a window is visible:
\* DisplayWindow::eventFilter (also PointMarkingWindow's key presses) and
\* PromptWindow::eventFilter
KeyPress(text) ==
  /\ proc = "running"
  /\ \E d \in Drivers : visible[d]
  /\ filters # <<>>
  /\ IF WindowType(kind[KeyFilter]) = "PromptWindow"
       THEN IF ToLower(text) \in {"y", "n"}
              THEN /\ gotString' = [gotString EXCEPT ![KeyFilter] = text]
                   /\ WakeAll(KeyFilter)
                   /\ rejected' = FALSE
              ELSE /\ rejected' = TRUE
                   /\ UNCHANGED <<gotString, woken, waiting, wokeShown, completed,
                                  cycOpen>>
       ELSE /\ WakeAll(KeyFilter)
            /\ UNCHANGED <<gotString, rejected>>
  /\ UNCHANGED <<proc, facVars, cfgVars, paceVars, drvVars, thrVars>>
  /\ UNCHANGED <<filters, evq, pixmap, visible, title, points, guiKeys, fields>>
  /\ UNCHANGED <<net, touchedNull>>

\* the filters that handle a mouse press: PointMarkingWindow's; the other
\* windows' filters pass it on
MouseFilters == {i \in 1..Len(filters) :
                   WindowType(kind[filters[i]]) = "PointMarkingWindow"}
MouseFilter == filters[CHOOSE i \in MouseFilters : \A j \in MouseFilters : j <= i]

\* the mouse presses that differ for PointMarkingWindow: it reads the position
\* of a left press only
PressPositions(button) ==
  IF button = "Left" THEN Positions ELSE {CHOOSE p \in Positions : TRUE}

\* a mouse press reaches the application while a window is visible:
\* PointMarkingWindow::eventFilter
MousePress(button, pos) ==
  /\ proc = "running"
  /\ \E d \in Drivers : visible[d]
  /\ MouseFilters # {}
  /\ LET d == MouseFilter IN
       CASE button = "Left" ->
              /\ Len(points[d]) < MaxClicks
              /\ points' = [points EXCEPT ![d] = Append(@, pos)]
              /\ net' = [net EXCEPT ![d] = IF cycOpen[d] THEN @ + 1 ELSE @]
         [] button = "Right" /\ points[d] # <<>> ->
              /\ points' = [points EXCEPT ![d] = SubSeq(@, 1, Len(@) - 1)]
              /\ net' = [net EXCEPT ![d] = IF cycOpen[d] THEN @ - 1 ELSE @]
         [] OTHER -> UNCHANGED <<points, net>>
  /\ UNCHANGED <<proc, facVars, cfgVars, paceVars, rejected, drvVars, thrVars>>
  /\ UNCHANGED <<filters, evq, pixmap, visible, title, gotString, guiKeys,
                 fields, waiting, woken>>
  /\ UNCHANGED <<wokeShown, completed, cycOpen, touchedNull>>

\* the events the user can cause
KeyPressEvent == \E text \in KeyTexts : KeyPress(text)
MousePressEvent ==
  \E button \in Buttons : \E pos \in PressPositions(button) : MousePress(button, pos)

\* the form's button is clicked: DisplayGUI::buttonPressed
ButtonPressed(d) ==
  /\ proc = "running"
  /\ WindowType(kind[d]) = "DisplayGUI"
  /\ visible[d]
  /\ WakeAll(d)
  /\ UNCHANGED <<proc, facVars, cfgVars, paceVars, rejected, drvVars, thrVars>>
  /\ UNCHANGED <<filters, evq, pixmap, visible, title, points, gotString,
                 guiKeys, fields>>
  /\ UNCHANGED <<net, touchedNull>>

\* the user edits the text of the j-th QLineEdit of the form
FieldTexts == {"", "a"}
TypeText(d, j, text) ==
  /\ proc = "running"
  /\ WindowType(kind[d]) = "DisplayGUI"
  /\ visible[d]
  /\ j \in 1..Len(fields[d])
  /\ fields[d][j] # text
  /\ fields' = [fields EXCEPT ![d][j] = text]
  /\ UNCHANGED <<proc, facVars, cfgVars, paceVars, rejected, drvVars, thrVars,
                 histVars>>
  /\ UNCHANGED <<filters, evq, pixmap, visible, title, points, gotString,
                 guiKeys, waiting, woken>>

TypeTextEvent ==
  \E d \in Drivers : \E j \in 1..Len(fields[d]) : \E text \in FieldTexts :
    TypeText(d, j, text)

\* ----------------------------------------------------- FPSLimit, FPSCalc
\* history: a call returns at clock value c
Returned(c) ==
  /\ prevRet' = c
  /\ spacing' = IF prevRet = NotStarted THEN NotStarted ELSE c - prevRet

\* history: an FPSLimit call starts with a batch of n templates and sleeps w
\* (or not)
Started(n, w) ==
  /\ invs' = invs + 1
  /\ given' = n
  /\ sleeps' = IF gap THEN <<>> ELSE Append(sleeps, w)

\* FPSLimit::init: target_wait = 1000.0 / targetFPS, the quotient cut to a
\* qint64; timer.start(); last_time = timer.elapsed()
LimitInit(d) ==
  /\ proc = "running"
  /\ kind[d] = "FPSLimit"
  /\ ~inited[d]
  /\ inited' = [inited EXCEPT ![d] = TRUE]
  /\ target_wait' = 1000 \div targetFPS
  /\ timerStart' = now
  /\ last_time' = 0
  /\ UNCHANGED <<proc, facVars, cfgVars, winVars, thrVars, histVars, rejected>>
  /\ UNCHANGED <<displayBuffer, window>>
  /\ UNCHANGED <<targetFPS, now, wakeAt, initialized, framesSeen, ticks, invs,
                 given, items, elapsed, prevRet, spacing, sleeps, gap>>

\* the clock advances while no call is in progress: the time the rest of the
\* pipeline takes between two calls
Tick(delay) ==
  /\ proc = "running"
  /\ kind[1] \in PaceKinds
  /\ inited[1]
  /\ \A t \in Workers : pc[t] = "idle"
  /\ ticks < MaxTicks
  /\ ticks' = ticks + 1
  /\ now' = now + delay
  /\ gap' = TRUE
  /\ sleeps' = <<>>
  /\ UNCHANGED <<proc, facVars, cfgVars, drvVars, winVars, thrVars, histVars,
                 rejected>>
  /\ UNCHANGED <<targetFPS, timerStart, target_wait, last_time, wakeAt,
                 initialized, framesSeen, invs, given, items, elapsed, prevRet,
                 spacing>>

\* FPSLimit::projectUpdate with a batch of n templates, up to the return or
\* the call of QThread::msleep
LimitProjectUpdate(t, n) ==
  LET d == drv[t]
      current_time == now - timerStart
      target_time == last_time + target_wait
      wait_time == target_time - current_time
  IN
  /\ proc = "running"
  /\ kind[d] = "FPSLimit"
  /\ pc[t] = "idle"
  /\ inited[d]
  /\ HostRuns(t)
  /\ invs < MaxInvocations
  /\ dst' = [dst EXCEPT ![t] = [assigned |-> TRUE, files |-> PassThrough(n)]]
  /\ last_time' = current_time
  /\ IF wait_time < 0
       THEN /\ Started(n, NoSleep)
            /\ Returned(now)
            /\ UNCHANGED <<pc, wakeAt>>
       ELSE /\ Started(n, wait_time)
            /\ pc' = [pc EXCEPT ![t] = "sleeping"]
            /\ wakeAt' = now + wait_time
            /\ UNCHANGED <<prevRet, spacing>>
  /\ UNCHANGED <<proc, facVars, cfgVars, drvVars, winVars, histVars, rejected,
                 fi, mi>>
  /\ UNCHANGED <<targetFPS, now, timerStart, target_wait, initialized,
                 framesSeen, ticks, items, elapsed, gap>>

\* QThread::msleep(wait_time) ends, at the time asked or later;
\* last_time = timer.elapsed(); return
LimitWake(t, over) ==
  /\ proc = "running"
  /\ pc[t] = "sleeping"
  /\ now' = wakeAt + over
  /\ last_time' = now' - timerStart
  /\ wakeAt' = Awake
  /\ pc' = [pc EXCEPT ![t] = "idle"]
  /\ Returned(now')
  /\ UNCHANGED <<proc, facVars, cfgVars, drvVars, winVars, histVars, rejected,
                 fi, mi, dst>>
  /\ UNCHANGED <<targetFPS, timerStart, target_wait, initialized, framesSeen,
                 ticks, invs, given, items, elapsed, sleeps, gap>>

\* FPSCalc::init
CalcInit(d) ==
  /\ proc = "running"
  /\ kind[d] = "FPSCalc"
  /\ ~inited[d]
  /\ inited' = [inited EXCEPT ![d] = TRUE]
  /\ initialized' = FALSE
  /\ framesSeen' = 0
  /\ UNCHANGED <<proc, facVars, cfgVars, winVars, thrVars, histVars, rejected>>
  /\ UNCHANGED <<displayBuffer, window>>
  /\ UNCHANGED <<targetFPS, now, timerStart, target_wait, last_time, wakeAt,
                 ticks, invs, given, items, elapsed, prevRet, spacing, sleeps,
                 gap>>

\* FPSCalc::projectUpdate with a batch of n templates
CalcProjectUpdate(t, n) ==
  LET d == drv[t]
      start == IF initialized THEN timerStart ELSE now
      el == now - start
      seen == framesSeen + 1
      fps == (1000 * seen) \div el
  IN
  /\ proc = "running"
  /\ kind[d] = "FPSCalc"
  /\ pc[t] = "idle"
  /\ inited[d]
  /\ HostRuns(t)
  /\ invs < MaxInvocations
  /\ initialized' = TRUE
  /\ timerStart' = start
  /\ framesSeen' = seen
  /\ elapsed' = IF n = 0 THEN NotStarted ELSE el
  /\ dst' = [dst EXCEPT ![t] =
        [assigned |-> TRUE,
         files |-> IF n > 0 /\ el > 1000
                     THEN [PassThrough(n) EXCEPT ![1].fps = <<fps>>]
                     ELSE PassThrough(n)]]
  /\ invs' = invs + 1
  /\ given' = n
  /\ items' = items + n
  /\ Returned(now)
  /\ UNCHANGED <<proc, facVars, cfgVars, drvVars, winVars, histVars, rejected,
                 pc, fi, mi>>
  /\ UNCHANGED <<targetFPS, now, target_wait, last_time, wakeAt, ticks, sleeps,
                 gap>>

\* the steps of the two transforms
ClockAdvances == \E delay \in Delays(kind[1]) : Tick(delay)
LimitCall == \E t \in Workers : \E n \in 0..MaxImages : LimitProjectUpdate(t, n)
LimitSleepEnds == \E t \in Workers : \E over \in Oversleep : LimitWake(t, over)
CalcCall == \E t \in Workers : \E n \in 0..MaxImages : CalcProjectUpdate(t, n)

\* ---------------------------------------------------------- specifications
\* the factory alone: threads call getItem on one MainThreadCreator
InitCreate ==
  /\ proc = "running"
  /\ InitFactory
  /\ InitOneDriver({"Show"}, 0)
  /\ useGui /\ parallelism = 1 /\ waitInput[1]

NextCreate ==
  \/ GetItemDirect
  \/ \E t \in Workers : GetItemHide(t)
  \/ \E t \in Workers : GetItemEmit(t)
  \/ CreateThing
  \/ \E t \in Workers : GetItemCollect(t)

SpecCreate == InitCreate /\ [][NextCreate]_vars

\* the factory called by one worker thread (and possibly the owner thread)
InitSingle ==
  /\ InitCreate
  /\ Cardinality(callers \cap Workers) = 1

SpecSingle == InitSingle /\ [][NextCreate]_vars

\* one transform of any kind with its window, the owner thread's event loop
\* and the user's key, mouse and button presses
InitGui ==
  /\ proc = "running"
  /\ FactoryIdle
  /\ InitOneDriver(Kinds, MaxImages)

NextGui ==
  \/ \E d \in Drivers : DriverInit(d)
  \/ \E t \in Workers : ProjectUpdate(t)
  \/ \E t \in Workers : NextTemplate(t)
  \/ \E t \in Workers : ConvertImage(t)
  \/ \E t \in Workers : EmitUpdateImage(t)
  \/ \E t \in Workers : WaitEnter(t)
  \/ \E t \in Workers : WaitReturn(t)
  \/ Deliver
  \/ KeyPressEvent
  \/ MousePressEvent
  \/ \E d \in Drivers : ButtonPressed(d)

SpecGui == InitGui /\ [][NextGui]_vars

\* the same with parallelism 1: one worker thread runs the transform
InitOne ==
  /\ InitGui
  /\ parallelism = 1

SpecOne == InitOne /\ [][NextGui]_vars

\* one worker thread under the scheduling the code can rely on: a thread that
\* can take a step takes it, and the owner thread's event loop delivers what
\* is posted to it.  The user is not obliged to press anything.

ThreadStep(t) ==
  \/ ProjectUpdate(t) \/ NextTemplate(t) \/ ConvertImage(t)
  \/ EmitUpdateImage(t) \/ WaitEnter(t) \/ WaitReturn(t)

SpecFair ==
  /\ InitOne
  /\ [][NextGui]_vars
  /\ \A t \in Workers : WF_vars(ThreadStep(t))
  /\ WF_vars(Deliver)
  /\ \A d \in Drivers : WF_vars(DriverInit(d))

\* the transforms that must not run in parallel, Manual and Survey
InitSerial ==
  /\ proc = "running"
  /\ FactoryIdle
  /\ InitOneDriver({"Manual", "Survey"}, MaxImagesSerial)

NextSerial ==
  \/ \E d \in Drivers : DriverInit(d)
  \/ \E t \in Workers : ProjectUpdate(t)
  \/ \E t \in Workers : NextTemplate(t)
  \/ \E t \in Workers : ConvertImage(t)
  \/ \E t \in Workers : EmitUpdateImage(t)
  \/ \E t \in Workers : WaitEnter(t)
  \/ \E t \in Workers : WaitReturn(t)
  \/ Deliver
  \/ KeyPressEvent
  \/ MousePressEvent

SpecSerial == InitSerial /\ [][NextSerial]_vars

\* Elicit and its form, run by one worker thread, with the user typing into
\* the form's fields
InitForm ==
  /\ proc = "running"
  /\ FactoryIdle
  /\ InitOneDriver({"Elicit"}, MaxImages)
  /\ parallelism = 1

NextForm ==
  \/ \E d \in Drivers : DriverInit(d)
  \/ \E t \in Workers : ProjectUpdate(t)
  \/ \E t \in Workers : NextTemplate(t)
  \/ \E t \in Workers : ConvertImage(t)
  \/ \E t \in Workers : EmitUpdateImage(t)
  \/ \E t \in Workers : WaitEnter(t)
  \/ \E t \in Workers : WaitReturn(t)
  \/ Deliver
  \/ \E d \in Drivers : ButtonPressed(d)
  \/ TypeTextEvent

SpecForm == InitForm /\ [][NextForm]_vars

\* the same with the fields left as showImage made them: the displays, the
\* button presses and the waits alone
NextElicit ==
  \/ \E d \in Drivers : DriverInit(d)
  \/ \E t \in Workers : ProjectUpdate(t)
  \/ \E t \in Workers : NextTemplate(t)
  \/ \E t \in Workers : ConvertImage(t)
  \/ \E t \in Workers : EmitUpdateImage(t)
  \/ \E t \in Workers : WaitEnter(t)
  \/ \E t \in Workers : WaitReturn(t)
  \/ Deliver
  \/ \E d \in Drivers : ButtonPressed(d)

SpecElicit == InitForm /\ [][NextElicit]_vars

\* any one of the six transforms, called by one worker thread
InitStages ==
  /\ proc = "running"
  /\ FactoryIdle
  /\ InitOneDriver(Kinds \cup PaceKinds, MaxImagesSerial)
  /\ parallelism = 1

NextStages ==
  \/ \E d \in Drivers : DriverInit(d)
  \/ \E t \in Workers : ProjectUpdate(t)
  \/ \E t \in Workers : NextTemplate(t)
  \/ \E t \in Workers : ConvertImage(t)
  \/ \E t \in Workers : EmitUpdateImage(t)
  \/ \E t \in Workers : WaitEnter(t)
  \/ \E t \in Workers : WaitReturn(t)
  \/ Deliver
  \/ KeyPressEvent
  \/ MousePressEvent
  \/ \E d \in Drivers : ButtonPressed(d)
  \/ \E d \in Drivers : LimitInit(d)
  \/ \E d \in Drivers : CalcInit(d)
  \/ ClockAdvances
  \/ LimitCall
  \/ LimitSleepEnds
  \/ CalcCall

SpecStages == InitStages /\ [][NextStages]_vars

\* two Show transforms, each with its own window and its own worker thread,
\* both waiting for input after every image
InitWindows ==
  /\ proc = "running"
  /\ FactoryIdle
  /\ useGui = TRUE
  /\ parallelism = 2
  /\ kind = [d \in Drivers |-> IF d <= 2 THEN "Show" ELSE "None"]
  /\ waitInput = [d \in Drivers |-> TRUE]
  /\ keys = [d \in Drivers |-> <<>>]
  /\ \E b \in Batches(MaxImagesSerial) :
       src = [d \in Drivers |-> IF d <= 2 THEN b ELSE <<>>]
  /\ drv = [t \in Workers |-> IF t <= 2 THEN t ELSE 1]
  /\ InitObjects
  /\ InitPace

\* a key press sent to window w, one of the windows on screen: the
\* application's event filters handle it whatever window it was sent to
KeyPressTo(w, text) ==
  /\ visible[w]
  /\ KeyPress(text)

KeyPressToWindow == \E w \in Drivers : \E text \in KeyTexts : KeyPressTo(w, text)

NextWindows ==
  \/ \E d \in Drivers : DriverInit(d)
  \/ \E t \in Workers : ProjectUpdate(t)
  \/ \E t \in Workers : NextTemplate(t)
  \/ \E t \in Workers : ConvertImage(t)
  \/ \E t \in Workers : EmitUpdateImage(t)
  \/ \E t \in Workers : WaitEnter(t)
  \/ \E t \in Workers : WaitReturn(t)
  \/ Deliver
  \/ KeyPressToWindow

SpecWindows == InitWindows /\ [][NextWindows]_vars

\* FPSLimit alone, called by one thread
InitLimit ==
  /\ proc = "running"
  /\ FactoryIdle
  /\ InitOneDriver({"FPSLimit"}, 0)
  /\ useGui /\ parallelism = 1

NextLimit ==
  \/ \E d \in Drivers : LimitInit(d)
  \/ ClockAdvances
  \/ LimitCall
  \/ LimitSleepEnds

SpecLimit == InitLimit /\ [][NextLimit]_vars

\* FPSCalc alone, called by one thread
InitCalc ==
  /\ proc = "running"
  /\ FactoryIdle
  /\ InitOneDriver({"FPSCalc"}, 0)
  /\ useGui /\ parallelism = 1

NextCalc ==
  \/ \E d \in Drivers : CalcInit(d)
  \/ ClockAdvances
  \/ CalcCall

SpecCalc == InitCalc /\ [][NextCalc]_vars

\* ------------------------------------------------------------------ claims

\* C1: however two or more worker threads interleave their getItem calls on
\* one factory, every call returns the object the owner thread built for that
\* call's own ActualCreation: never a null (unset) basis, never another
\* request's object.
C1_EachCallGetsItsOwnObject ==
  \A t \in Workers : \A k \in 1..Len(ret[t]) :
    /\ ret[t][k].kind = "obj"
    /\ ret[t][k].thunk = <<t, k>>

\* C2: when a single worker thread is the factory's only caller, the thunk is
\* run by the owner thread, each basis is assigned exactly once, the caller
\* stays blocked until the owner thread has run the thunk, and every call
\* returns the basis written for it.
C2_SingleCallerRoundTrip ==
  \A t \in Workers :
    callers \cap Workers = {t} =>
      /\ proc = "running"
      /\ \A r \in Reqs : writes[r] <= 1
      /\ gpc[t] \in {"hidden", "blocked"} => writes[MyReq(t)] = 0
      /\ gpc[t] = "resumed" => basis[MyReq(t)] = Obj(MyReq(t), Owner, 1)
      /\ \A k \in 1..Len(ret[t]) : ret[t][k] = Obj(<<t, k>>, Owner, 1)

C2_Witness ==
  \E t \in Workers :
    callers \cap Workers = {t} /\ Len(ret[t]) = MaxCalls /\ gpc[t] = "idle"

\* C3: in every cycle, once the owner thread has handled a completing event
\* (key press, accepted y/n, button press) after the cycle's image was shown,
\* the thread's wait for that cycle eventually returns, also when the event
\* was handled before the thread started to wait.
C3_CompletedWaitReturns ==
  \A t \in Workers : completed[t] ~> ~completed[t]

\* C4: a thread is released from its wait only by an event the owner thread
\* handled after it had processed the showImage call of the thread's cycle.
C4_WokenAfterDisplay ==
  \A t \in Workers : (pc[t] = "blocked" /\ t \in woken[drv[t]]) => wokeShown[t]

\* C5: for every window, whatever the transform and the parallelism, at most
\* one thread is inside the window's wait at any time.
C5_OneWaiterPerWindow ==
  \A d \in Drivers : Cardinality(waiting[d] \cup woken[d]) <= 1

\* C6: a window's image and accumulator (points, answer string, fields) are
\* written by the owner thread only: no step of a worker thread changes them.
C6_OnlyOwnerWritesWindow ==
  [][\A t \in Workers :
       pc'[t] # pc[t] =>
         UNCHANGED <<pixmap, points, gotString, fields>>]_vars

\* C7: with parallelism > 1 a batch reaching Manual or Survey aborts the run
\* before anything else: no image is converted, posted or shown, no wait is
\* entered, no dst is assigned; with parallelism 1 the run is never aborted.
C7_FatalBeforeAnything ==
  \A t \in Workers :
    kind[drv[t]] \in {"Manual", "Survey"} =>
      /\ parallelism > 1 =>
            /\ pc[t] \in {"idle", "fatal"}
            /\ pc[t] = "fatal" => proc = "fatal"
            /\ dst[t] = Unassigned
            /\ \A i \in 1..Len(evq) : evq[i].slot # "showImage"
            /\ \A d \in Drivers :
                  /\ displayBuffer[d] \in {NullPtr, NoImg}
                  /\ pixmap[d] = NoImg /\ ~visible[d]
                  /\ waiting[d] = {} /\ woken[d] = {}
      /\ parallelism = 1 => proc # "fatal"

C7_Witness ==
  \E t \in Workers :
    /\ kind[drv[t]] \in {"Manual", "Survey"}
    /\ parallelism > 1
    /\ src[drv[t]] # <<>>
    /\ pc[t] = "fatal"

\* C8: with the GUI disabled, init() creates no window and projectUpdate
\* posts no display call, enters no wait, dereferences no display buffer or
\* window that was never created, and returns the batch it was given.
C8_HeadlessPassThrough ==
  ~useGui =>
    /\ \A d \in Drivers : window[d] # "win" /\ waiting[d] = {} /\ woken[d] = {}
    /\ evq = <<>>
    /\ ~touchedNull
    /\ proc = "running"
    /\ \A t \in Workers :
          /\ pc[t] \notin {"wait", "blocked"}
          /\ pc[t] = "done" => dst[t].files = SrcFiles(drv[t])

\* C9: the list PointMarkingWindow::waitForKey returns has as many points as
\* the left presses handled between the cycle's showImage and its completing
\* key press, minus the right presses that removed a point in that time.
C9_PointCount ==
  [][\A t \in Workers :
       (kind[drv[t]] = "Manual" /\ pc[t] = "blocked" /\ pc'[t] # "blocked") =>
         Len(Result(drv[t])) = net[drv[t]]]_vars

\* C10: the answer Survey stores under propertyName is "y" or "n", lowercase.
C10_AnswerLowercase ==
  \A t \in Workers : \A i \in 1..Len(dst[t].files) :
    kind[drv[t]] = "Survey" =>
      dst[t].files[i].kv[PropertyKey] \in {<<>>, <<"y">>, <<"n">>}

C11_OneEntryPerKey ==
  [][\A t \in Workers :
       LET d == drv[t]
           r == Result(d)
           n == Len(keys[d])
       IN (kind[d] = "Elicit" /\ t \in woken[d] /\ t \notin woken'[d]) =>
            /\ Len(r) = n
            /\ \A j \in 1..n : r[j] = fields[d][Len(fields[d]) - n + j]]_vars

C13_KeysHoldThisCyclesText ==
  [][\A t \in Workers :
       LET d == drv[t]
           n == Len(keys[d])
           f == fields[d]
       IN (kind[d] = "Elicit" /\ t \in woken[d] /\ t \notin woken'[d]
             /\ wokeShown[t] /\ proc' = "running") =>
            \A j \in 1..n :
              dst'[t].files[fi[t]].kv[j] = <<f[Len(f) - n + j]>>]_vars

C15_SpacingAtLeastInterval ==
  (kind[1] = "FPSLimit" /\ spacing # NotStarted) => spacing * targetFPS >= 1000

\* C16: FPSCalc, on a call with a non-empty batch: the first template is
\* stamped exactly when at least 1000 ms have elapsed since the timer started
\* (at 1000 ms too), with the integer quotient 1000 * framesSeen / elapsed, and
\* no other template of the batch is stamped.
C16_StampFromOneSecond ==
  \A t \in Workers :
    (kind[drv[t]] = "FPSCalc" /\ dst[t].assigned /\ given > 0) =>
      /\ (dst[t].files[1].fps # <<>>) <=> (elapsed >= 1000)
      /\ dst[t].files[1].fps # <<>> =>
            dst[t].files[1].fps = <<(1000 * framesSeen) \div elapsed>>
      /\ \A i \in 2..Len(dst[t].files) : dst[t].files[i].fps = <<>>

\* C17: a key press that is neither y nor n, in either case, handled by the
\* prompt window neither releases a waiting thread nor changes the stored
\* answer: a thread blocked in waitForKeyPress stays blocked.
C17_RejectedKeyChangesNothing ==
  [][(~rejected /\ rejected') =>
       UNCHANGED <<gotString, waiting, woken, pc, dst>>]_vars

C17_Witness ==
  \E t \in Workers :
    /\ kind[drv[t]] = "Survey"
    /\ rejected
    /\ pc[t] = "blocked" /\ t \in waiting[drv[t]] /\ Shown(t)
    /\ gotString[drv[t]] = ""

\* C18: a getItem call made by the owner thread builds the object in the
\* call itself: nothing is posted to the event loop, the call has returned
\* when the step ends (the owner thread never waits for itself), and the
\* shared worker pointer and every pending request are left as they were.
C18_OwnerCreatesDirectly ==
  [][calls'[Owner] # calls[Owner] =>
       /\ worker' = worker /\ callq' = callq /\ gpc' = gpc
       /\ reqState' = reqState /\ basis' = basis /\ writes' = writes
       /\ proc' = "running"
       /\ Len(ret'[Owner]) = calls'[Owner]
       /\ ret'[Owner][calls'[Owner]].kind = "obj"
       /\ ret'[Owner][calls'[Owner]].by = Owner]_vars

C18_Witness ==
  /\ Owner \in callers
  /\ Len(ret[Owner]) = MaxCalls
  /\ worker # NoReq /\ callq # <<>>

\* C19: FPSLimit with targetFPS 30, five calls back to back right after
\* init(): the first call returns without sleeping, each later call sleeps
\* its shortfall of about 33 ms, and the five calls take at least 132 ms.
C19_FirstCallImmediate ==
  (kind[1] = "FPSLimit" /\ targetFPS = 30 /\ ~gap) =>
    /\ \A k \in 1..Len(sleeps) :
          IF k = 1 THEN sleeps[k] = NoSleep ELSE sleeps[k] \in 32..34
    /\ (Len(sleeps) = 5 /\ \A t \in Workers : pc[t] = "idle") =>
          now - timerStart >= 132

\* C20: every FPSCalc call adds the number of templates of its batch to
\* framesSeen (nothing for an empty batch, k for a batch of k), and the
\* counter is never reset after the first call.
C20_CounterCountsItems ==
  kind[1] = "FPSCalc" => framesSeen = items

\* C21: with two windows alive, each driven by its own thread, an input event
\* sent to one window touches that window's cycle only: it neither releases
\* a thread waiting on another window nor changes another window's
\* accumulator.
C21_EventStaysInItsWindow ==
  [][\A w \in Drivers : \A text \in Texts :
       KeyPressTo(w, text) =>
         \A d \in Drivers \ {w} :
           /\ waiting'[d] = waiting[d] /\ woken'[d] = woken[d]
           /\ points'[d] = points[d] /\ gotString'[d] = gotString[d]]_vars

\* C22: whenever waitForButtonPress returns to Elicit, the list it returns
\* has at least as many entries as Elicit has keys, so that metadata[j] is
\* never read past the end of the list, however the owner thread's steps
\* (showImage, button presses, typing) interleave with the worker thread's.
C22_ListCoversKeys ==
  [][\A t \in Workers :
       LET d == drv[t] IN
       (kind[d] = "Elicit" /\ t \in woken[d] /\ t \notin woken'[d]) =>
         /\ Len(Result(d)) >= Len(keys[d])
         /\ proc' = "running"
         /\ touchedNull' = touchedNull]_vars

C22_Witness ==
  \E t \in Workers :
    /\ kind[drv[t]] = "Elicit" /\ Len(keys[drv[t]]) = MaxKeys
    /\ pc[t] = "mat" /\ mi[t] > 1
    /\ \A k \in 1..MaxKeys : dst[t].files[fi[t]].kv[k] # <<>>

=============================================================================
